---- MODULE Spec2Model ----
(***************************************************************************)
(* Chord renderer (src/main.py): the chord-shape table built at import,    *)
(* the single-diagram renderer, the sheet renderer and the HTTP handlers.  *)
(*                                                                         *)
(* An SVG document is a sequence of elements (records with a "tag" field)  *)
(* in the order the code appends them.  Coordinates that the code computes *)
(* with a float division by frets_visible are kept as exact fractions      *)
(* <<numerator, denominator>>.                                             *)
(***************************************************************************)
EXTENDS Integers, Sequences, FiniteSets, TLC

VARIABLES
    pc,                  \* "import" while the module body runs, then "idle" / "done"
    ri, qi,              \* loop positions of _build_all_guitar_chords (1-based)
    chords,              \* the dict _build_all_guitar_chords is filling
    CHORD_SHAPES_GUITAR, \* the module-level table (empty until assigned)
    op,                  \* the operation that ran last ("" when none)
    args,                \* its arguments
    result,              \* its outcome: a return value or an exception
    calls                \* the render_guitar_svg calls it made, in order

vars == <<pc, ri, qi, chords, CHORD_SHAPES_GUITAR, op, args, result, calls>>

----------------------------------------------------------------------------
(* Bounds of the model *)

MaxFret == 1
MaxFretStart == 2
MaxFretsVisible == 2
MaxCalcFret == 5
MaxChords == 5
MaxColumns == 4

----------------------------------------------------------------------------
(* Outcomes of a call *)

Return(v) == [kind |-> "return", exc |-> "", msg |-> "", value |-> v]

Raise(e, m) == [kind |-> "raise", exc |-> e, msg |-> m, value |-> <<>>]

EmptyDict == [k \in {} |-> 0]

NoArgs == [none |-> TRUE]

----------------------------------------------------------------------------
(* _calc_fret_start, _transpose_shape, _build_all_guitar_chords *)

RECURSIVE SeqMin(_)
SeqMin(s) ==
    IF Len(s) = 1 THEN s[1]
    ELSE LET m == SeqMin(Tail(s)) IN IF s[1] <= m THEN s[1] ELSE m

\* A faulty variant of _calc_fret_start: the window shifts already at fret 4.
FretStartShiftsAtFour(positions) ==
    LET positives == SelectSeq(positions, LAMBDA p : p > 0) IN
    IF positives = <<>> THEN 1
    ELSE LET min_pos == SeqMin(positives) IN
         IF min_pos < 4 THEN 1 ELSE min_pos - 1

_calc_fret_start(positions) ==
    LET positives == SelectSeq(positions, LAMBDA p : p > 0) IN
    IF positives = <<>> THEN 1
    ELSE LET min_pos == SeqMin(positives) IN
         IF min_pos <= 4 THEN 1 ELSE min_pos - 1

\* A faulty variant of _transpose_shape: muted strings are shifted too.
TransposeShiftsMuted(template, root_fret) ==
    [i \in 1..Len(template) |-> template[i] + root_fret]

_transpose_shape(template, root_fret) ==
    [i \in 1..Len(template) |->
        IF template[i] < 0 THEN -1 ELSE template[i] + root_fret]

e_form_templates ==
    ("maj" :> <<0, 2, 2, 1, 0, 0>>) @@
    ("min" :> <<0, 2, 2, 0, 0, 0>>) @@
    ("7" :> <<0, 2, 0, 1, 0, 0>>) @@
    ("maj7" :> <<0, 2, 1, 1, 0, 0>>) @@
    ("min7" :> <<0, 2, 0, 0, 0, 0>>) @@
    ("sus2" :> <<0, 2, 2, 4, 0, 0>>) @@
    ("sus4" :> <<0, 2, 2, 2, 0, 0>>) @@
    ("dim" :> <<0, 1, 2, 0, 2, 0>>) @@
    ("aug" :> <<0, 3, 2, 1, 1, 0>>)

a_form_templates ==
    ("maj" :> <<-1, 0, 2, 2, 2, 0>>) @@
    ("min" :> <<-1, 0, 2, 2, 1, 0>>) @@
    ("7" :> <<-1, 0, 2, 0, 2, 0>>) @@
    ("maj7" :> <<-1, 0, 2, 1, 2, 0>>) @@
    ("min7" :> <<-1, 0, 2, 0, 1, 0>>) @@
    ("sus2" :> <<-1, 0, 2, 2, 0, 0>>) @@
    ("sus4" :> <<-1, 0, 2, 2, 3, 0>>) @@
    ("dim" :> <<-1, 0, 1, 2, 1, -1>>) @@
    ("aug" :> <<-1, 0, 3, 2, 2, 1>>)

root_to_e_string_fret ==
    ("C" :> 8) @@ ("C#" :> 9) @@ ("D" :> 10) @@ ("D#" :> 11) @@
    ("E" :> 0) @@ ("F" :> 1) @@ ("F#" :> 2) @@ ("G" :> 3) @@
    ("G#" :> 4) @@ ("A" :> 5) @@ ("A#" :> 6) @@ ("B" :> 7)

root_to_a_string_fret ==
    ("C" :> 3) @@ ("C#" :> 4) @@ ("D" :> 5) @@ ("D#" :> 6) @@
    ("E" :> 7) @@ ("F" :> 8) @@ ("F#" :> 9) @@ ("G" :> 10) @@
    ("G#" :> 11) @@ ("A" :> 0) @@ ("A#" :> 1) @@ ("B" :> 2)

use_a_form_for == {"A", "A#", "B", "C", "C#", "D", "D#"}

roots == <<"C", "C#", "D", "D#", "E", "F", "F#", "G", "G#", "A", "A#", "B">>

qualities == <<"maj", "min", "7", "maj7", "min7", "sus2", "sus4", "dim", "aug">>

\* A faulty variant of chord_name: the quality is left out of the key.
ChordNameRootOnly(root, quality) == root

\* Line 88.
chord_name(root, quality) == root \o quality

\* Lines 89-94: the template and the root fret chosen for a root.
template_for(root, quality) ==
    IF root \in use_a_form_for THEN a_form_templates[quality]
    ELSE e_form_templates[quality]

root_fret_for(root) ==
    IF root \in use_a_form_for THEN root_to_a_string_fret[root]
    ELSE root_to_e_string_fret[root]

\* Lines 96-100: the entry stored for one (root, quality).
chord_entry(root, quality) ==
    LET positions == _transpose_shape(template_for(root, quality), root_fret_for(root))
    IN  [pos |-> positions, fretStart |-> _calc_fret_start(positions)]

\* One iteration of the nested loops of _build_all_guitar_chords.
BuildStep ==
    /\ pc = "import"
    /\ ri <= Len(roots)
    /\ chords' = (chord_name(roots[ri], qualities[qi]) :> chord_entry(roots[ri], qualities[qi]))
                    @@ chords
    /\ IF qi < Len(qualities)
         THEN qi' = qi + 1 /\ ri' = ri
         ELSE qi' = 1 /\ ri' = ri + 1
    /\ UNCHANGED <<pc, CHORD_SHAPES_GUITAR, op, args, result, calls>>

\* Line 101 and line 104: return chords; CHORD_SHAPES_GUITAR = ...
BuildReturn ==
    /\ pc = "import"
    /\ ri > Len(roots)
    /\ CHORD_SHAPES_GUITAR' = chords
    /\ pc' = "idle"
    /\ UNCHANGED <<ri, qi, chords, op, args, result, calls>>

\* The caller takes the outcome; the process serves the next call.
Finish ==
    /\ pc = "done"
    /\ pc' = "idle"
    /\ op' = ""
    /\ args' = NoArgs
    /\ result' = Return(<<>>)
    /\ calls' = <<>>
    /\ UNCHANGED <<ri, qi, chords, CHORD_SHAPES_GUITAR>>

----------------------------------------------------------------------------
(* A direct call of _calc_fret_start *)

CalcPositions == [1..6 -> -1..MaxCalcFret]

CalcFretStart ==
    /\ pc = "idle"
    /\ \E positions \in CalcPositions :
        /\ op' = "_calc_fret_start"
        /\ args' = [positions |-> positions]
        /\ result' = Return(_calc_fret_start(positions))
    /\ calls' = <<>>
    /\ pc' = "done"
    /\ UNCHANGED <<ri, qi, chords, CHORD_SHAPES_GUITAR>>

----------------------------------------------------------------------------
(* render_guitar_svg *)

W == 260

H == 360

margin_top == 60

margin_left == 40

grid_w == 180

grid_h == 220

strings == 6

\* string_gap = grid_w / (strings - 1): 36.0, an exact float.
string_gap == grid_w \div (strings - 1)

x_for_string(i_0_based) == margin_left + i_0_based * string_gap

\* margin_top + fret_index * (grid_h / frets), as a fraction over frets.
y_for_fret_line(fret_index_0_based, frets) ==
    <<margin_top * frets + fret_index_0_based * grid_h, frets>>

\* margin_top + (fret_number - fret_start + 0.5) * (grid_h / frets), over 2 * frets.
y_for_fret_center(fret_number, fret_start, frets) ==
    <<2 * margin_top * frets + (2 * (fret_number - fret_start) + 1) * grid_h, 2 * frets>>

SvgOpen(w, h) == [tag |-> "svg", width |-> w, height |-> h]

SvgClose == [tag |-> "/svg"]

RectEl == [tag |-> "rect", width |-> "100%", height |-> "100%", fill |-> "white"]

TextEl(x, y, size, anchor, text) ==
    [tag |-> "text", x |-> x, y |-> y, font_size |-> size, anchor |-> anchor, text |-> text]

LineEl(x1, y1, x2, y2, width, linecap) ==
    [tag |-> "line", x1 |-> x1, y1 |-> y1, x2 |-> x2, y2 |-> y2,
     stroke_width |-> width, linecap |-> linecap]

CircleEl(cx, cy) == [tag |-> "circle", cx |-> cx, cy |-> cy, r |-> 10]

\* Lines 158-159: the "fret N" label.
FretLabel(fret_start) ==
    IF fret_start # 1
    THEN <<TextEl(margin_left + grid_w + 18, margin_top + 14, 14, "",
                  "fret " \o ToString(fret_start))>>
    ELSE <<>>

\* Lines 162-164: the nut.
NutLine(fret_start) ==
    LET nut_thickness == IF fret_start = 1 THEN 6 ELSE 2 IN
    LineEl(margin_left, <<margin_top, 1>>, margin_left + grid_w, <<margin_top, 1>>,
           nut_thickness, "")

\* Lines 167-169: for f in range(1, frets + 1); empty when frets < 1.
FretLines(frets) ==
    [f \in 1..frets |->
        LineEl(margin_left, y_for_fret_line(f, frets),
               margin_left + grid_w, y_for_fret_line(f, frets), 2, "")]

\* Lines 172-174: for s in range(strings).
StringLines ==
    [s \in 1..strings |->
        LineEl(x_for_string(s - 1), <<margin_top, 1>>,
               x_for_string(s - 1), <<margin_top + grid_h, 1>>, 2, "")]

\* Lines 177-183: "x" over a muted string, "o" over an open one.
RECURSIVE Markers(_, _)
Markers(positions, i) ==
    IF i > Len(positions) THEN <<>>
    ELSE LET p == positions[i]
             x == x_for_string(i - 1)
             marker_y == margin_top - 18
         IN  (IF p = -1 THEN <<TextEl(x, marker_y, 16, "middle", "x")>>
              ELSE IF p = 0 THEN <<TextEl(x, marker_y, 16, "middle", "o")>>
              ELSE <<>>)
             \o Markers(positions, i + 1)

\* Lines 189-198: one bar per barre; string numbers 6..1 become indices 0..5.
BarreLine(b, fret_start, frets) ==
    LET a == 6 - b.fromString
        c == 6 - b.toString
        lo == IF a <= c THEN a ELSE c
        hi == IF a <= c THEN c ELSE a
    IN  LineEl(x_for_string(lo), y_for_fret_center(b.fret, fret_start, frets),
               x_for_string(hi), y_for_fret_center(b.fret, fret_start, frets),
               10, "round")

BarreLines(barres, fret_start, frets) ==
    [k \in 1..Len(barres) |-> BarreLine(barres[k], fret_start, frets)]

\* A faulty variant of InWindow: the upper end of the window is included.
InWindowInclusive(p, fret_start, frets_visible) ==
    fret_start <= p /\ p <= fret_start + frets_visible

\* Line 205: fret_start <= p < fret_start + frets_visible.
InWindow(p, fret_start, frets_visible) ==
    fret_start <= p /\ p < fret_start + frets_visible

\* Lines 201-209: a dot for each fretted string inside the window.
RECURSIVE FingerDots(_, _, _, _)
FingerDots(positions, i, fret_start, frets_visible) ==
    IF i > Len(positions) THEN <<>>
    ELSE LET p == positions[i] IN
         (IF p <= 0 THEN <<>>
          ELSE IF ~InWindow(p, fret_start, frets_visible) THEN <<>>
          ELSE <<CircleEl(x_for_string(i - 1),
                          y_for_fret_center(p, fret_start, frets_visible))>>)
         \o FingerDots(positions, i + 1, fret_start, frets_visible)

\* A faulty variant of SvgBody: the finger dots are drawn before the glyphs.
SvgBodyDotsFirst(name, positions, fret_start, frets_visible, barres) ==
    <<SvgOpen(W, H), RectEl, TextEl(W \div 2, 32, 20, "middle", name)>>
    \o FretLabel(fret_start)
    \o <<NutLine(fret_start)>>
    \o FretLines(frets_visible)
    \o StringLines
    \o FingerDots(positions, 1, fret_start, frets_visible)
    \o Markers(positions, 1)
    \o BarreLines(barres, fret_start, frets_visible)
    \o <<SvgClose>>

\* Lines 150-212, the body after the length check.  The title's x is W/2.
SvgBody(name, positions, fret_start, frets_visible, barres) ==
    <<SvgOpen(W, H), RectEl, TextEl(W \div 2, 32, 20, "middle", name)>>
    \o FretLabel(fret_start)
    \o <<NutLine(fret_start)>>
    \o FretLines(frets_visible)
    \o StringLines
    \o Markers(positions, 1)
    \o BarreLines(barres, fret_start, frets_visible)
    \o FingerDots(positions, 1, fret_start, frets_visible)
    \o <<SvgClose>>

\* Lines 119-120: the length check; line 134: grid_h / frets divides by
\* frets_visible and raises ZeroDivisionError when it is 0.
render_guitar_svg(name, positions, fret_start, frets_visible, barres) ==
    IF Len(positions) # 6
    THEN Raise("ValueError", "positions must have 6 values for guitar")
    ELSE IF frets_visible = 0
    THEN Raise("ZeroDivisionError", "division by zero")
    ELSE Return(SvgBody(name, positions, fret_start, frets_visible, barres))

\* One recorded call of render_guitar_svg.
CoreCall(name, positions, fret_start, frets_visible, barres) ==
    [name |-> name, positions |-> positions, fret_start |-> fret_start,
     frets_visible |-> frets_visible, barres |-> barres,
     out |-> render_guitar_svg(name, positions, fret_start, frets_visible, barres)]

----------------------------------------------------------------------------
(* A direct call of render_guitar_svg (barres left at its default) *)

PosVals == -1..MaxFret

SixPositions == [1..6 -> PosVals]

\* Lists of 5, 6 and 7 values.
PositionsInputs ==
    SixPositions
    \cup {SubSeq(p, 1, 5) : p \in SixPositions}
    \cup {Append(p, 0) : p \in SixPositions}

FretStartInputs == 1..MaxFretStart

FretsVisibleInputs == -1..MaxFretsVisible

RenderGuitarSvg ==
    /\ pc = "idle"
    /\ \E positions \in PositionsInputs, fret_start \in FretStartInputs,
          frets_visible \in FretsVisibleInputs :
        LET call == CoreCall("Chord", positions, fret_start, frets_visible, <<>>) IN
        /\ op' = "render_guitar_svg"
        /\ args' = [positions |-> positions, fret_start |-> fret_start,
                    frets_visible |-> frets_visible, barres |-> <<>>]
        /\ result' = call.out
        /\ calls' = <<call>>
    /\ pc' = "done"
    /\ UNCHANGED <<ri, qi, chords, CHORD_SHAPES_GUITAR>>

----------------------------------------------------------------------------
(* _extract_inner_svg, render_guitar_chords_sheet_svg *)

cell_w == 260

cell_h == 360

gap_x == 20

gap_y == 24

\* Index of the last "</svg>" element, -1 when there is none (rfind).
RECURSIVE LastClose(_, _)
LastClose(svg, i) ==
    IF i < 1 THEN -1
    ELSE IF svg[i].tag = "/svg" THEN i
    ELSE LastClose(svg, i - 1)

\* Lines 215-220.  The first ">" ends the document's first element, so
\* "start" is element 1 (or -1 in an empty text); everything strictly
\* between it and the last "</svg>" is kept.
_extract_inner_svg(svg_text) ==
    LET start == IF Len(svg_text) = 0 THEN -1 ELSE 1
        end == LastClose(svg_text, Len(svg_text))
    IN  IF start = -1 \/ end = -1 \/ end <= start
        THEN svg_text
        ELSE SubSeq(svg_text, start + 1, end - 1)

GroupEl(tx, ty, inner) == [tag |-> "g", tx |-> tx, ty |-> ty, inner |-> inner]

\* Line 231.
SheetRows(count, columns) == (count + columns - 1) \div columns

\* A faulty variant of CellIndex: the cells are filled column by column.
CellIndexColumnMajor(idx, count, columns) ==
    [row |-> idx % SheetRows(count, columns), col |-> idx \div SheetRows(count, columns)]

\* Lines 243-244: row and column of the chord at 0-based index idx.
CellIndex(idx, count, columns) ==
    [row |-> idx \div columns, col |-> idx % columns]

\* Lines 245-246.
CellOrigin(cell) ==
    [tx |-> gap_x + cell.col * (cell_w + gap_x),
     ty |-> gap_y + cell.row * (cell_h + gap_y)]

\* Lines 248-252: the call made for one chord of the sheet.
SheetCall(chord) ==
    CoreCall(chord, CHORD_SHAPES_GUITAR[chord].pos,
             CHORD_SHAPES_GUITAR[chord].fretStart, 5, <<>>)

\* 1-based position of the first name that is no key of the table, 0 if none.
RECURSIVE FirstMissing(_, _)
FirstMissing(names, i) ==
    IF i > Len(names) THEN 0
    ELSE IF names[i] \notin DOMAIN CHORD_SHAPES_GUITAR THEN i
    ELSE FirstMissing(names, i + 1)

\* The render_guitar_svg calls the loop of lines 241-254 makes before it
\* ends or CHORD_SHAPES_GUITAR[chord] raises KeyError.
SheetCalls(names, columns) ==
    IF names = <<>> \/ columns <= 0 THEN <<>>
    ELSE LET k == FirstMissing(names, 1)
             n == IF k = 0 THEN Len(names) ELSE k - 1
         IN  [i \in 1..n |-> SheetCall(names[i])]

\* Lines 229-257.  The loop stops at the first chord whose lookup raises
\* KeyError or whose render_guitar_svg call raises.
SheetBody(names, columns) ==
    LET count == Len(names)
        rows == SheetRows(count, columns)
        total_w == columns * cell_w + (columns + 1) * gap_x
        total_h == rows * cell_h + (rows + 1) * gap_y
        made == SheetCalls(names, columns)
        failed == {i \in 1..Len(made) : made[i].out.kind = "raise"}
        groups == [i \in 1..count |->
                     LET at == CellOrigin(CellIndex(i - 1, count, columns))
                     IN  GroupEl(at.tx, at.ty, _extract_inner_svg(made[i].out.value))]
    IN  IF failed # {}
        THEN made[CHOOSE i \in failed : \A j \in failed : i <= j].out
        ELSE IF Len(made) < count
        THEN Raise("KeyError", names[Len(made) + 1])
        ELSE Return(<<SvgOpen(total_w, total_h), RectEl>> \o groups \o <<SvgClose>>)

\* A faulty variant of render_guitar_chords_sheet_svg: the names are looked
\* up before columns is checked.
SheetLooksUpFirst(names, columns) ==
    IF names = <<>>
    THEN Raise("ValueError", "chords list cannot be empty")
    ELSE IF FirstMissing(names, 1) # 0
    THEN Raise("KeyError", names[FirstMissing(names, 1)])
    ELSE IF columns <= 0
    THEN Raise("ValueError", "columns must be greater than 0")
    ELSE SheetBody(names, columns)

\* Lines 223-227, then the body.
render_guitar_chords_sheet_svg(names, columns) ==
    IF names = <<>>
    THEN Raise("ValueError", "chords list cannot be empty")
    ELSE IF columns <= 0
    THEN Raise("ValueError", "columns must be greater than 0")
    ELSE SheetBody(names, columns)

----------------------------------------------------------------------------
(* A direct call of render_guitar_chords_sheet_svg *)

SheetNames == {"Cmaj", "G#sus2", "Hmaj"}

RECURSIVE SeqsUpTo(_, _)
SeqsUpTo(S, n) ==
    IF n = 0 THEN {<<>>}
    ELSE LET shorter == SeqsUpTo(S, n - 1) IN
         shorter \cup {Append(q, x) : q \in {r \in shorter : Len(r) = n - 1}, x \in S}

ChordLists == SeqsUpTo(SheetNames, MaxChords)

ColumnsInputs == -1..MaxColumns

RenderSheet ==
    /\ pc = "idle"
    /\ \E names \in ChordLists, columns \in ColumnsInputs :
        /\ op' = "render_guitar_chords_sheet_svg"
        /\ args' = [chords |-> names, columns |-> columns]
        /\ result' = render_guitar_chords_sheet_svg(names, columns)
        /\ calls' = SheetCalls(names, columns)
    /\ pc' = "done"
    /\ UNCHANGED <<ri, qi, chords, CHORD_SHAPES_GUITAR>>

----------------------------------------------------------------------------
(* HTTP handlers.  A query string is a sequence of one-character strings;  *)
(* a JSON object is a function from its keys.                              *)

Digits ==
    ("0" :> 0) @@ ("1" :> 1) @@ ("2" :> 2) @@ ("3" :> 3) @@ ("4" :> 4) @@
    ("5" :> 5) @@ ("6" :> 6) @@ ("7" :> 7) @@ ("8" :> 8) @@ ("9" :> 9)

\* pos.split(",")
RECURSIVE Split(_, _, _)
Split(text, i, cur) ==
    IF i > Len(text) THEN <<cur>>
    ELSE IF text[i] = "," THEN <<cur>> \o Split(text, i + 1, <<>>)
    ELSE Split(text, i + 1, Append(cur, text[i]))

\* x.strip() for blanks
RECURSIVE Strip(_)
Strip(text) ==
    IF text = <<>> THEN text
    ELSE IF Head(text) = " " THEN Strip(Tail(text))
    ELSE IF text[Len(text)] = " " THEN Strip(SubSeq(text, 1, Len(text) - 1))
    ELSE text

RECURSIVE DigitsValue(_, _)
DigitsValue(text, acc) ==
    IF text = <<>> THEN acc
    ELSE DigitsValue(Tail(text), 10 * acc + Digits[Head(text)])

\* int(x) of a stripped field: an optional sign, then one or more digits.
ParseInt(text) ==
    LET signed == text # <<>> /\ Head(text) \in {"-", "+"}
        body == IF signed THEN Tail(text) ELSE text
    IN  IF body = <<>> \/ \E k \in 1..Len(body) : body[k] \notin DOMAIN Digits
        THEN Raise("ValueError", "invalid literal for int() with base 10")
        ELSE Return(IF signed /\ Head(text) = "-"
                    THEN 0 - DigitsValue(body, 0) ELSE DigitsValue(body, 0))

\* Lines 105-106.
_parse_pos_csv(pos) ==
    LET fields == Split(pos, 1, <<>>)
        parsed == [k \in 1..Len(fields) |-> ParseInt(Strip(fields[k]))]
        bad == {k \in 1..Len(fields) : parsed[k].kind = "raise"}
    IN  IF bad # {}
        THEN parsed[CHOOSE k \in bad : \A j \in bad : k <= j]
        ELSE Return([k \in 1..Len(fields) |-> parsed[k].value])

\* dict.get(key, default)
Get(d, key, default) == IF key \in DOMAIN d THEN d[key] ELSE default

Response(content, status_code, media_type, headers) ==
    [content |-> content, status_code |-> status_code,
     media_type |-> media_type, headers |-> headers]

\* Lines 260-261: the digest stands for its payload.
etag_for(payload) == [sha256 |-> payload]

Handled(response, made) == [out |-> Return(response), calls |-> made]

Escaped(exception, made) == [out |-> exception, calls |-> made]

\* Lines 263-283.
render_chord_svg_get(instrument, name, pos, fretStart) ==
    LET positions == _parse_pos_csv(pos) IN
    IF positions.kind = "raise" THEN Escaped(positions, <<>>)
    ELSE IF instrument # "guitar"
    THEN Handled(Response("Unsupported instrument", 400, "text/plain", EmptyDict), <<>>)
    ELSE LET call == CoreCall(name, positions.value, fretStart, 5, <<>>) IN
         IF call.out.kind = "raise" THEN Escaped(call.out, <<call>>)
         ELSE Handled(Response(call.out.value, 200, "image/svg+xml",
                               ("Content-Type" :> "image/svg+xml; charset=utf-8") @@
                               ("Cache-Control" :> "public, max-age=86400") @@
                               ("ETag" :> etag_for(call.out.value))),
                      <<call>>)

\* Lines 285-313.
render_chord_svg_post(payload) ==
    LET instrument == Get(payload, "instrument", "guitar")
        meta == Get(payload, "meta", EmptyDict)
        diagram == Get(payload, "diagram", EmptyDict)
    IN  IF instrument # "guitar"
        THEN Handled(Response("Unsupported instrument", 400, "text/plain", EmptyDict), <<>>)
        ELSE LET call == CoreCall(Get(meta, "name", "Chord"),
                                  Get(diagram, "positions", <<>>),
                                  Get(diagram, "fretStart", 1),
                                  Get(diagram, "fretsVisible", 5),
                                  Get(diagram, "barres", <<>>))
             IN  IF call.out.kind = "raise" THEN Escaped(call.out, <<call>>)
                 ELSE Handled(Response(call.out.value, 200, "image/svg+xml",
                                       ("Cache-Control" :> "public, max-age=86400") @@
                                       ("ETag" :> etag_for(call.out.value))),
                              <<call>>)

\* Lines 315-326.
chord_svg_guitar(chord) ==
    IF chord \notin DOMAIN CHORD_SHAPES_GUITAR
    THEN Handled(Response("Chord not found: " \o chord, 404, "text/plain", EmptyDict), <<>>)
    ELSE LET call == SheetCall(chord) IN
         IF call.out.kind = "raise" THEN Escaped(call.out, <<call>>)
         ELSE Handled(Response(call.out.value, 200, "image/svg+xml", EmptyDict), <<call>>)

\* ', '.join(missing)
RECURSIVE Join(_)
Join(names) ==
    IF names = <<>> THEN ""
    ELSE IF Len(names) = 1 THEN names[1]
    ELSE names[1] \o ", " \o Join(Tail(names))

\* Lines 329-359.  The "chords" value is [is_list, items]: a JSON value that
\* is a list of names, or some other JSON value (items then empty).
chord_svg_guitar_batch(payload) ==
    LET given == Get(payload, "chords", [is_list |-> TRUE, items |-> <<>>])
        columns == Get(payload, "columns", 4)
        missing == SelectSeq(given.items, LAMBDA c : c \notin DOMAIN CHORD_SHAPES_GUITAR)
        sheet == render_guitar_chords_sheet_svg(given.items, columns)
        made == SheetCalls(given.items, columns)
    IN  IF ~given.is_list \/ given.items = <<>>
        THEN Handled(Response("Payload must include a non-empty 'chords' list",
                              400, "text/plain", EmptyDict), <<>>)
        ELSE IF missing # <<>>
        THEN Handled(Response("Chord(s) not found: " \o Join(missing),
                              404, "text/plain", EmptyDict), <<>>)
        ELSE IF sheet.kind = "raise" /\ sheet.exc = "ValueError"
        THEN Handled(Response(sheet.msg, 400, "text/plain", EmptyDict), made)
        ELSE IF sheet.kind = "raise"
        THEN Escaped(sheet, made)
        ELSE Handled(Response(sheet.value, 200, "image/svg+xml",
                              ("Cache-Control" :> "public, max-age=86400") @@
                              ("ETag" :> etag_for(sheet.value))),
                     made)

----------------------------------------------------------------------------
(* Requests *)

InstrumentInputs == {"guitar", "ukulele"}

\* Query strings for pos: well-formed lists of 6, 5, 7 and 1 values, blanks
\* around values, an empty string, a non-numeric field, an empty field.
CsvInputs ==
    {
    <<"-", "1", ",", "3", ",", "2", ",", "0", ",", "1", ",", "0">>,
    <<"4", ",", "6", ",", "6", ",", "5", ",", "4", ",", "4">>,
    <<"-", "1", ",", "1", "0", ",", "1", "2", ",", "1", "2", ",", "1", "2", ",", "1", "0">>,
    <<" ", "3", ",", " ", "2", " ", ",", "0", ",", "0", ",", "0", ",", "3">>,
    <<"-", "1", ",", "3", ",", "2", ",", "0", ",", "1">>,
    <<"0", ",", "0", ",", "0", ",", "0", ",", "0", ",", "0", ",", "0">>,
    <<"3">>,
    <<>>,
    <<"x", ",", "3", ",", "2", ",", "0", ",", "1", ",", "0">>,
    <<"1", ",", ",", "2", ",", "0", ",", "1", ",", "0">>
    }

SamplePositions ==
    {<<-1, 3, 2, 0, 1, 0>>, <<4, 6, 6, 5, 4, 4>>, <<-1, 3, 2, 0, 1>>,
     <<0, 0, 0, 0, 0, 0, 0>>}

SampleBarres ==
    {<<>>,
     <<[fret |-> 1, fromString |-> 6, toString |-> 5]>>,
     <<[fret |-> 1, fromString |-> 5, toString |-> 6]>>,
     <<[fret |-> 4, fromString |-> 6, toString |-> 1]>>,
     <<[fret |-> 2, fromString |-> 3, toString |-> 3]>>,
     <<[fret |-> 4, fromString |-> 6, toString |-> 1],
       [fret |-> 6, fromString |-> 5, toString |-> 4]>>}

DiagramInputs ==
    {EmptyDict}
    \cup {("positions" :> p) : p \in SamplePositions}
    \cup {("positions" :> p) @@ ("fretStart" :> fs) @@ ("fretsVisible" :> fv)
            @@ ("barres" :> b) :
            p \in SamplePositions, fs \in FretStartInputs,
            fv \in FretsVisibleInputs \cup {5}, b \in SampleBarres}

ChordPayloads ==
    {("diagram" :> d) : d \in DiagramInputs}
    \cup {("instrument" :> i) @@ ("meta" :> ("name" :> "Am")) @@ ("diagram" :> d) :
            i \in InstrumentInputs, d \in DiagramInputs}
    \cup {EmptyDict}

BatchPayloads ==
    {EmptyDict, ("chords" :> [is_list |-> FALSE, items |-> <<>>])}
    \cup {("chords" :> [is_list |-> TRUE, items |-> names]) : names \in ChordLists}
    \cup {("chords" :> [is_list |-> TRUE, items |-> names]) @@ ("columns" :> columns) :
            names \in ChordLists, columns \in ColumnsInputs}

AllChordNames == {chord_name(roots[i], qualities[j]) : i \in 1..Len(roots), j \in 1..Len(qualities)}

GetRenderChord ==
    /\ pc = "idle"
    /\ \E instrument \in InstrumentInputs, pos \in CsvInputs, fretStart \in FretStartInputs :
        LET handled == render_chord_svg_get(instrument, "Chord", pos, fretStart) IN
        /\ op' = "GET /v1/render/chord.svg"
        /\ args' = [instrument |-> instrument, name |-> "Chord", pos |-> pos,
                    fretStart |-> fretStart]
        /\ result' = handled.out
        /\ calls' = handled.calls
    /\ pc' = "done"
    /\ UNCHANGED <<ri, qi, chords, CHORD_SHAPES_GUITAR>>

PostRenderChord ==
    /\ pc = "idle"
    /\ \E payload \in ChordPayloads :
        LET handled == render_chord_svg_post(payload) IN
        /\ op' = "POST /v1/render/chord.svg"
        /\ args' = [payload |-> payload]
        /\ result' = handled.out
        /\ calls' = handled.calls
    /\ pc' = "done"
    /\ UNCHANGED <<ri, qi, chords, CHORD_SHAPES_GUITAR>>

GetChord ==
    /\ pc = "idle"
    /\ \E chord \in AllChordNames \cup {"Hmaj"} :
        LET handled == chord_svg_guitar(chord) IN
        /\ op' = "GET /v1/chords/guitar/{chord}.svg"
        /\ args' = [chord |-> chord]
        /\ result' = handled.out
        /\ calls' = handled.calls
    /\ pc' = "done"
    /\ UNCHANGED <<ri, qi, chords, CHORD_SHAPES_GUITAR>>

PostChordsBatch ==
    /\ pc = "idle"
    /\ \E payload \in BatchPayloads :
        LET handled == chord_svg_guitar_batch(payload) IN
        /\ op' = "POST /v1/chords/guitar.svg"
        /\ args' = [payload |-> payload]
        /\ result' = handled.out
        /\ calls' = handled.calls
    /\ pc' = "done"
    /\ UNCHANGED <<ri, qi, chords, CHORD_SHAPES_GUITAR>>

----------------------------------------------------------------------------

Init ==
    /\ pc = "import"
    /\ ri = 1
    /\ qi = 1
    /\ chords = EmptyDict
    /\ CHORD_SHAPES_GUITAR = EmptyDict
    /\ op = ""
    /\ args = NoArgs
    /\ result = Return(<<>>)
    /\ calls = <<>>

\* The process: the import, then the calls and requests it serves.
Next ==
    \/ BuildStep
    \/ BuildReturn
    \/ RenderGuitarSvg
    \/ RenderSheet
    \/ GetRenderChord
    \/ PostRenderChord
    \/ GetChord
    \/ PostChordsBatch
    \/ Finish

Spec == Init /\ [][Next]_vars

\* The table builder and its helper _calc_fret_start applied on its own.
NextTable ==
    \/ BuildStep
    \/ BuildReturn
    \/ CalcFretStart
    \/ Finish

SpecTable == Init /\ [][NextTable]_vars

----------------------------------------------------------------------------
(* Properties of the chord table *)

\* The least strictly-positive value of a positions list, 0 when there is none.
MinPositive(positions) ==
    LET P == {v \in {positions[k] : k \in DOMAIN positions} : v > 0} IN
    IF P = {} THEN 0 ELSE CHOOSE m \in P : \A q \in P : m <= q

FretStartAsSpecified(positions, fretStart) ==
    LET m == MinPositive(positions) IN
    /\ m = 0 => fretStart = 1
    /\ (m # 0 /\ m <= 4) => fretStart = 1
    /\ m > 4 => fretStart = m - 1

\* The tables a claim about "the chord table" speaks of: the dict while
\* _build_all_guitar_chords fills it, and the published module-level table
\* whenever the process is between two calls.
Tables ==
    IF pc = "import" THEN {chords}
    ELSE IF pc = "idle" THEN {CHORD_SHAPES_GUITAR}
    ELSE {}

\* C1: once built, the table has exactly 108 keys, one per concatenation
\* root+quality of the 12 roots and 9 qualities, and every entry's positions
\* has length 6 with each value -1, 0 or in 1..24.
C1_TableComplete ==
    pc = "idle" =>
        /\ Len(roots) = 12 /\ Len(qualities) = 9
        /\ DOMAIN CHORD_SHAPES_GUITAR =
              {roots[i] \o qualities[j] : i \in 1..12, j \in 1..9}
        /\ Cardinality(DOMAIN CHORD_SHAPES_GUITAR) = 108
        /\ \A n \in DOMAIN CHORD_SHAPES_GUITAR :
              /\ Len(CHORD_SHAPES_GUITAR[n].pos) = 6
              /\ \A k \in 1..6 :
                    \/ CHORD_SHAPES_GUITAR[n].pos[k] = -1
                    \/ CHORD_SHAPES_GUITAR[n].pos[k] = 0
                    \/ CHORD_SHAPES_GUITAR[n].pos[k] \in 1..24

C1_Witness ==
    /\ pc = "idle"
    /\ "G#sus2" \in DOMAIN CHORD_SHAPES_GUITAR
    /\ CHORD_SHAPES_GUITAR["G#sus2"].pos = <<4, 6, 6, 8, 4, 4>>
    /\ CHORD_SHAPES_GUITAR["Amaj"].pos = <<-1, 0, 2, 2, 2, 0>>

\* C2: for every entry of the chord table, and for every 6-element list
\* given to _calc_fret_start, fretStart is 1 when no position is strictly
\* positive, 1 when the least strictly-positive position m is <= 4, and
\* m - 1 otherwise.
C2_FretStart ==
    /\ \A t \in Tables : \A n \in DOMAIN t :
          FretStartAsSpecified(t[n].pos, t[n].fretStart)
    /\ op = "_calc_fret_start" =>
          /\ result.kind = "return"
          /\ FretStartAsSpecified(args.positions, result.value)

C2_Witness ==
    /\ op = "_calc_fret_start"
    /\ MinPositive(args.positions) = 5
    /\ args.positions[1] = -1
    /\ result.value = 4
    /\ CHORD_SHAPES_GUITAR["Dmaj"].fretStart = 4

\* C3: every entry's positions are the transposition of one template: roots
\* A, A#, B, C, C#, D, D# use the A-form template with the A-string root
\* fret, roots E, F, F#, G, G# the E-form template with the E-string root
\* fret; a template element -1 stays -1, every other element is the template
\* value plus the root fret, so a 0 appears only when the root fret is 0.
C3_Transposition ==
    \A t \in Tables : \A i \in 1..Len(roots), j \in 1..Len(qualities) :
        LET root == roots[i]
            quality == qualities[j]
            a_form == root \in {"A", "A#", "B", "C", "C#", "D", "D#"}
            template == IF a_form THEN a_form_templates[quality]
                        ELSE e_form_templates[quality]
            root_fret == IF a_form THEN root_to_a_string_fret[root]
                         ELSE root_to_e_string_fret[root]
        IN  /\ a_form \/ root \in {"E", "F", "F#", "G", "G#"}
            /\ (root \o quality) \in DOMAIN t =>
                 \A k \in 1..6 :
                    LET p == t[root \o quality].pos[k] IN
                    /\ template[k] = -1 => p = -1
                    /\ template[k] # -1 => p = template[k] + root_fret
                    /\ p = 0 => root_fret = 0

C3_Witness ==
    /\ pc = "idle"
    /\ CHORD_SHAPES_GUITAR["D#aug"].pos = <<-1, 6, 9, 8, 8, 7>>
    /\ CHORD_SHAPES_GUITAR["G#dim"].pos = <<4, 5, 6, 4, 6, 4>>
    /\ CHORD_SHAPES_GUITAR["Emin7"].pos = <<0, 2, 0, 0, 0, 0>>

\* C9: every strictly-positive fret of every table entry lies inside the
\* window [fretStart, fretStart + 5) of the named-chord endpoint and the
\* sheet renderer, so every fretted string of a table chord gets a dot.
C9_TableChordsFullyDrawn ==
    /\ \A t \in Tables : \A n \in DOMAIN t : \A k \in 1..Len(t[n].pos) :
          t[n].pos[k] > 0 =>
              (t[n].fretStart <= t[n].pos[k] /\ t[n].pos[k] < t[n].fretStart + 5)
    /\ op = "GET /v1/chords/guitar/{chord}.svg" =>
          \A c \in 1..Len(calls) :
              Cardinality({k \in 1..Len(calls[c].out.value) :
                              calls[c].out.value[k].tag = "circle"})
                = Cardinality({k \in 1..6 : calls[c].positions[k] > 0})

----------------------------------------------------------------------------
(* Properties of render_guitar_svg, stated of every call an operation made *)

Circles(svg) == {k \in 1..Len(svg) : svg[k].tag = "circle"}

\* 1-based strings whose fret is positive and inside the visible window.
WindowStrings(c) ==
    {i \in 1..Len(c.positions) :
        /\ c.positions[i] > 0
        /\ c.fret_start <= c.positions[i]
        /\ c.positions[i] < c.fret_start + c.frets_visible}

OutsideStrings(c) ==
    {i \in 1..Len(c.positions) : c.positions[i] > 0} \ WindowStrings(c)

\* C4: a finger dot is emitted for string i exactly when positions[i] > 0 and
\* fret_start <= positions[i] < fret_start + frets_visible, at that string's
\* x and that fret's row; the number of dots is the number of such strings;
\* a position outside the window is no cause of failure (a call fails only
\* by the length check or by the division by frets_visible = 0).
C4_DotsExactlyInWindow ==
    \A n \in 1..Len(calls) :
        LET c == calls[n]
            svg == c.out.value
        IN  /\ c.out.kind = "raise" => (Len(c.positions) # 6 \/ c.frets_visible = 0)
            /\ c.out.kind = "return" =>
                /\ \A i \in 1..6 :
                      (\E k \in Circles(svg) : svg[k].cx = 40 + (i - 1) * 36)
                          <=> i \in WindowStrings(c)
                /\ \A k \in Circles(svg) : \E i \in WindowStrings(c) :
                      /\ svg[k].cx = 40 + (i - 1) * 36
                      /\ svg[k].cy = <<120 * c.frets_visible
                                         + (2 * (c.positions[i] - c.fret_start) + 1) * 220,
                                       2 * c.frets_visible>>
                /\ Cardinality(Circles(svg)) = Cardinality(WindowStrings(c))

C4_Witness ==
    /\ Len(calls) = 1
    /\ calls[1].out.kind = "return"
    /\ calls[1].frets_visible >= 1
    /\ WindowStrings(calls[1]) # {}
    /\ \E i \in OutsideStrings(calls[1]) :
          calls[1].positions[i] >= calls[1].fret_start + calls[1].frets_visible
    /\ \E i \in OutsideStrings(calls[1]) : calls[1].positions[i] < calls[1].fret_start
    /\ Cardinality(Circles(calls[1].out.value)) = Cardinality(WindowStrings(calls[1]))

\* The group of an element, told from its attributes: 1 background, 2 title,
\* 3 "fret N" label, 4 nut, 5 interior fret line, 6 string line, 7 open/mute
\* glyph, 8 barre, 9 finger dot.
Group(e) ==
    IF e.tag = "rect" THEN 1
    ELSE IF e.tag = "text"
    THEN (IF e.font_size = 20 THEN 2 ELSE IF e.font_size = 14 THEN 3 ELSE 7)
    ELSE IF e.tag = "line"
    THEN (IF e.linecap = "round" THEN 8
          ELSE IF e.x1 = e.x2 THEN 6
          ELSE IF e.y1[1] = 60 * e.y1[2] THEN 4
          ELSE 5)
    ELSE IF e.tag = "circle" THEN 9
    ELSE 0

\* A valid call: six positions and at least one visible fret row.
ValidCall(c) == Len(c.positions) = 6 /\ c.frets_visible >= 1

\* C8: for every valid call the elements come in the order background,
\* title, "fret N" label (present exactly when fret_start # 1), nut (stroke
\* width 6 exactly when fret_start = 1, otherwise 2), exactly frets_visible
\* interior fret lines, exactly 6 string lines, one glyph per muted ("x") or
\* open ("o") string and none for a fretted one, one bar per barre, then the
\* finger dots; no element of a later group precedes one of an earlier group.
C8_DrawOrder ==
    \A n \in 1..Len(calls) :
        LET c == calls[n]
            svg == c.out.value
            body == SubSeq(svg, 2, Len(svg) - 1)
            In(g) == {k \in 1..Len(body) : Group(body[k]) = g}
        IN  ValidCall(c) =>
            /\ c.out.kind = "return"
            /\ svg[1].tag = "svg" /\ svg[Len(svg)].tag = "/svg"
            /\ \A i, j \in 1..Len(body) : i < j => Group(body[i]) <= Group(body[j])
            /\ \A k \in 1..Len(body) : Group(body[k]) \in 1..9
            /\ Cardinality(In(1)) = 1
            /\ Cardinality(In(2)) = 1
            /\ \A k \in In(2) : body[k].text = c.name
            /\ Cardinality(In(3)) = (IF c.fret_start # 1 THEN 1 ELSE 0)
            /\ \A k \in In(3) : body[k].text = "fret " \o ToString(c.fret_start)
            /\ Cardinality(In(4)) = 1
            /\ \A k \in In(4) :
                  body[k].stroke_width = (IF c.fret_start = 1 THEN 6 ELSE 2)
            /\ Cardinality(In(5)) = c.frets_visible
            /\ \A k \in In(5) : body[k].stroke_width = 2 /\ body[k].y1 = body[k].y2
            /\ Cardinality(In(6)) = 6
            /\ Cardinality(In(7))
                  = Cardinality({i \in 1..6 : c.positions[i] \in {-1, 0}})
            /\ \A i \in 1..6 :
                  /\ c.positions[i] = -1 =>
                        \E k \in In(7) : body[k].x = 40 + (i - 1) * 36 /\ body[k].text = "x"
                  /\ c.positions[i] = 0 =>
                        \E k \in In(7) : body[k].x = 40 + (i - 1) * 36 /\ body[k].text = "o"
                  /\ c.positions[i] \notin {-1, 0} =>
                        ~ \E k \in In(7) : body[k].x = 40 + (i - 1) * 36
            /\ Cardinality(In(8)) = Len(c.barres)
            /\ Cardinality(In(9)) = Cardinality(WindowStrings(c))

C8_Witness ==
    /\ Len(calls) = 1
    /\ ValidCall(calls[1])
    /\ calls[1].fret_start # 1
    /\ calls[1].frets_visible = 2
    /\ Len(calls[1].barres) = 2
    /\ \E i \in 1..6 : calls[1].positions[i] = -1
    /\ \E i \in 1..6 : calls[1].positions[i] = 0
    /\ Cardinality(Circles(calls[1].out.value)) = 2

\* C10: render_guitar_svg returns SVG markup for every 6-element positions
\* list, every integer fret_start and every integer frets_visible; a
\* positions length other than 6 is the only condition under which it fails.
C10_FailsOnlyOnLength ==
    \A n \in 1..Len(calls) :
        calls[n].out.kind = "raise" => Len(calls[n].positions) # 6

\* C6: render_guitar_svg fails with its ValueError and no output whenever
\* len(positions) # 6, whatever the other arguments; the sheet renderer
\* fails with the empty-list error when the list is empty (also when columns
\* <= 0) and otherwise with the columns error when columns <= 0, both before
\* any table lookup or diagram rendering.
C6_FirstViolatedPrecondition ==
    /\ \A n \in 1..Len(calls) :
          Len(calls[n].positions) # 6 =>
              /\ calls[n].out.kind = "raise"
              /\ calls[n].out.exc = "ValueError"
              /\ calls[n].out.msg = "positions must have 6 values for guitar"
              /\ calls[n].out.value = <<>>
    /\ op = "render_guitar_chords_sheet_svg" =>
          /\ args.chords = <<>> =>
                /\ result.kind = "raise"
                /\ result.exc = "ValueError"
                /\ result.msg = "chords list cannot be empty"
                /\ result.value = <<>>
                /\ calls = <<>>
          /\ (args.chords # <<>> /\ args.columns <= 0) =>
                /\ result.kind = "raise"
                /\ result.exc = "ValueError"
                /\ result.msg = "columns must be greater than 0"
                /\ result.value = <<>>
                /\ calls = <<>>

C6_Witness ==
    /\ op = "render_guitar_chords_sheet_svg"
    /\ Len(args.chords) = 2
    /\ args.chords[2] = "Hmaj"
    /\ args.columns = 0
    /\ result.exc = "ValueError"
    /\ calls = <<>>

----------------------------------------------------------------------------
(* Properties of the sheet and of the HTTP handlers *)

\* The least r with r * columns >= count: ceil(count / columns).
CeilDiv(count, columns) ==
    CHOOSE r \in 0..count : r * columns >= count /\ (r - 1) * columns < count

\* C5: the chord at 0-based index i is in a group translated by
\* (20 + col*(260+20), 24 + row*(360+24)), row = i div columns, col = i mod
\* columns, one group per chord in list order; the canvas has exactly
\* ceil(count/columns) rows; 5 chords in 4 columns give 2 rows and chord
\* index 4 at row 1, column 0; every cell is inside the canvas and no two
\* cells overlap.
C5_SheetLayout ==
    (op = "render_guitar_chords_sheet_svg" /\ result.kind = "return") =>
        LET names == args.chords
            columns == args.columns
            count == Len(names)
            svg == result.value
            rows == CeilDiv(count, columns)
            G(i) == svg[2 + i]
        IN  /\ Len(svg) = count + 3
            /\ svg[1].tag = "svg" /\ svg[2].tag = "rect" /\ svg[Len(svg)].tag = "/svg"
            /\ svg[1].width = columns * 260 + (columns + 1) * 20
            /\ svg[1].height = rows * 360 + (rows + 1) * 24
            /\ \A i \in 1..count :
                  /\ G(i).tag = "g"
                  /\ G(i).tx = 20 + ((i - 1) % columns) * (260 + 20)
                  /\ G(i).ty = 24 + ((i - 1) \div columns) * (360 + 24)
                  /\ G(i).inner[2].text = names[i]
                  /\ G(i).inner = SubSeq(calls[i].out.value, 2, Len(calls[i].out.value) - 1)
                  /\ G(i).tx >= 0 /\ G(i).tx + 260 <= svg[1].width
                  /\ G(i).ty >= 0 /\ G(i).ty + 360 <= svg[1].height
            /\ \A i, j \in 1..count :
                  i < j =>
                      \/ G(i).tx + 260 <= G(j).tx
                      \/ G(j).tx + 260 <= G(i).tx
                      \/ G(i).ty + 360 <= G(j).ty
                      \/ G(j).ty + 360 <= G(i).ty
            /\ (count = 5 /\ columns = 4) =>
                  /\ rows = 2
                  /\ svg[1].height = 792
                  /\ G(5).tx = 20
                  /\ G(5).ty = 408

C5_Witness ==
    /\ op = "render_guitar_chords_sheet_svg"
    /\ result.kind = "return"
    /\ Len(args.chords) = 5
    /\ args.columns = 4
    /\ result.value[7].tag = "g"
    /\ result.value[7].ty = 408

\* C7: whenever the core raises its validation failure inside a handler
\* (positions length # 6 in the two chord.svg handlers, columns <= 0 in the
\* batch handler), the handler returns a client-error response and the
\* failure does not escape it.
C7_HandlersTranslateCoreFailures ==
    LET chord_failed ==
            /\ op \in {"GET /v1/render/chord.svg", "POST /v1/render/chord.svg"}
            /\ \E n \in 1..Len(calls) : Len(calls[n].positions) # 6
        given == Get(args.payload, "chords", [is_list |-> TRUE, items |-> <<>>])
        sheet_failed ==
            /\ op = "POST /v1/chords/guitar.svg"
            /\ given.is_list /\ given.items # <<>>
            /\ \A k \in 1..Len(given.items) : given.items[k] \in DOMAIN CHORD_SHAPES_GUITAR
            /\ Get(args.payload, "columns", 4) <= 0
    IN  (chord_failed \/ sheet_failed) =>
            /\ result.kind = "return"
            /\ result.value.status_code \in 400..499

====
